---- MODULE Spec2Model ----
(***************************************************************************)
(* transitdb: fare offers are ingested over HTTP (one JSON object per      *)
(* line), stored in the Postgres table offers, and read back by two        *)
(* aggregation queries, cheapestPerRouteSQL and listQuotesSQL.             *)
(*                                                                         *)
(* Conventions of the model.                                               *)
(*   - A Go or SQL string that the code splits, joins or compares (an      *)
(*     airport code, a filter parameter) is a sequence of one-character    *)
(*     strings; the empty string is << >>.  Opaque strings (a place name,  *)
(*     a source label) are TLA+ strings.                                   *)
(*   - An instant is a natural number of days.  ZeroTime is Go's zero      *)
(*     time.Time, for which IsZero() holds.  A DATE column holds the       *)
(*     instant at which the day starts.                                    *)
(*   - NULL is SQL's NULL.  A comparison with NULL is not true.            *)
(*   - The table offers is a bag of rows: the column offer_id is written   *)
(*     by the SERIAL default and read by no statement of the program.      *)
(***************************************************************************)
EXTENDS Integers, Sequences, FiniteSets, Bags, TLC

VARIABLES
    places,      \* table places: a set of rows
    offers,      \* table offers: a bag of rows
    now,         \* the clock: time.Now() in Go, NOW() in SQL
    pc,          \* HandleAddOffers: "idle", "scan" (in the loop) or "done"
    body,        \* HandleAddOffers: the lines of r.Body
    line,        \* HandleAddOffers: the loop variable line
    saved,       \* HandleAddOffers: the local variable saved
    resp,        \* HandleAddOffers: what was written to the ResponseWriter
    stderr,      \* HandleAddOffers: what was printed to os.Stderr
    calls,       \* the Store.SaveOffer calls of this request: line, store down or up
    before,      \* the table offers when this request began
    req,         \* the last query call and its arguments
    res,         \* the rows that call returned
    err,         \* the error that call returned ("" is nil)
    httpReq,     \* the GET request a query handler is serving
    httpResp,    \* what that handler wrote to its ResponseWriter
    airportIDCache,    \* the package variable airportIDCache: code -> place id
    airportIDCacheMu,  \* the goroutine that holds airportIDCacheMu, 0 for none
    lookups      \* the AirportIDByIATA call of each goroutine: position and locals

vars == <<places, offers, now, pc, body, line, saved, resp, stderr, calls,
          before, req, res, err, httpReq, httpResp, airportIDCache,
          airportIDCacheMu, lookups>>


-----------------------------------------------------------------------------
(* Bounds of the model. *)

MaxOffers == 3      \* rows the table offers may hold
MaxLimit == 2       \* the largest limit and offset of a paginated request
MaxBatch == 2       \* lines of one addOffers request
MaxGoroutines == 2  \* goroutines that call AirportIDByIATA

Costs == {1, 2}     \* costs of the stored offers the queries are run on
Dates == {1, 2}     \* start dates of those offers, and the window bounds
Evaluation == 1     \* the instant the model runs at
Expirations == {Evaluation, Evaluation + 1}

-----------------------------------------------------------------------------
(* Values. *)

ZeroTime == 0
NULL == -1

LGB == <<"L", "G", "B">>
JFK == <<"J", "F", "K">>
SFO == <<"S", "F", "O">>
Comma == <<",">>

Min(S) == CHOOSE x \in S : \A y \in S : x <= y
Max(S) == CHOOSE x \in S : \A y \in S : x >= y

Range(s) == {s[i] : i \in 1..Len(s)}

\* The rows of places the program starts on, and the one a later seeding adds.
SeededPlaces ==
    { [place_id |-> 1, name |-> "Long Beach", country |-> "US", iata_code |-> LGB],
      [place_id |-> 2, name |-> "New York", country |-> "US", iata_code |-> JFK] }

LatePlace ==
    [place_id |-> 3, name |-> "San Francisco", country |-> "US", iata_code |-> SFO]

\* SELECT place_id FROM places WHERE iata_code = $1, as a scalar subquery:
\* NULL when no row matches (iata_code is unique).
PlaceIDByIATA(iata) ==
    IF \E p \in places : p.iata_code = iata
    THEN (CHOOSE p \in places : p.iata_code = iata).place_id
    ELSE NULL

\* The row of places a foreign key refers to.
PlaceByID(id) == CHOOSE p \in places : p.place_id = id

-----------------------------------------------------------------------------
(* strings.Join and string_to_array. *)

RECURSIVE Join(_, _)
Join(list, sep) ==
    IF Len(list) = 0 THEN << >>
    ELSE IF Len(list) = 1 THEN list[1]
    ELSE list[1] \o sep \o Join(Tail(list), sep)

\* The fields of a non-empty string: the text between separators.
RECURSIVE Fields(_, _)
Fields(s, sep) ==
    IF \E i \in 1..Len(s) : <<s[i]>> = sep
    THEN LET i == Min({j \in 1..Len(s) : <<s[j]>> = sep})
         IN <<SubSeq(s, 1, i - 1)>> \o Fields(SubSeq(s, i + 1, Len(s)), sep)
    ELSE <<s>>

\* string_to_array(s, sep): the empty string gives the empty array.
StringToArray(s, sep) == IF s = << >> THEN << >> ELSE Fields(s, sep)

\* $n = '' OR iata_code = ANY(string_to_array($n, ','))
FilterPasses(param, iata) ==
    \/ param = << >>
    \/ iata \in Range(StringToArray(param, Comma))

\* A window that leaves its last day out.
BetweenHalfOpen(t, lo, hi) == lo <= t /\ t < hi

\* start_time BETWEEN $1 AND $2
Between(t, lo, hi) == lo <= t /\ t <= hi

\* An expiration test that still admits an offer at the instant it expires.
NotExpiredAtExpiration(expires_at, t) == expires_at # NULL /\ expires_at >= t

\* expires_at > NOW(): not true of a NULL expires_at.
NotExpired(expires_at, t) == expires_at # NULL /\ expires_at > t

-----------------------------------------------------------------------------
(* The two aggregation queries. *)

\* One element per row of a table: <<row, k>> is the k-th copy of row.
Instances(table) ==
    UNION {{<<r, k>> : k \in 1..CopiesIn(r, table)} : r \in BagToSet(table)}

RouteOf(o) == <<o.origin_id, o.dest_id>>

\* ORDER BY cost ASC: the orders of the rows of S in which cost never
\* decreases.  SQL leaves the order of rows with equal cost open.
OrderByCost(S) ==
    LET n == Cardinality(S)
    IN {f \in [1..n -> S] :
            /\ \A i, j \in 1..n : i # j => f[i] # f[j]
            /\ \A i, j \in 1..n : i < j => f[i].cost <= f[j].cost}

\* A page cut before the offset is skipped.
LimitThenOffset(rows, limit, offset) ==
    SubSeq(rows, offset + 1, Min({Len(rows), limit}))

\* LIMIT limit OFFSET offset, both non-negative.
LimitOffset(rows, limit, offset) ==
    SubSeq(rows, offset + 1, Min({Len(rows), offset + limit}))

\* listQuotesSQL, CTE matching_offers.  $3 and $4 are the joined lists.
MatchingOffers(q, t) ==
    {i \in Instances(offers) :
        LET o == i[1]
        IN /\ Between(o.start_time, q.StartDate, q.EndDate)
           /\ FilterPasses(Join(q.Origins, Comma), PlaceByID(o.origin_id).iata_code)
           /\ FilterPasses(Join(q.Destinations, Comma), PlaceByID(o.dest_id).iata_code)
           /\ NotExpired(o.expires_at, t)}

\* listQuotesSQL, CTE min_offers.
MinOffers(matching) ==
    {[origin_id |-> g[1], dest_id |-> g[2],
      cost |-> Min({i[1].cost : i \in {j \in matching : RouteOf(j[1]) = g}})] :
        g \in {RouteOf(i[1]) : i \in matching}}

\* A tiebreak that takes the earliest date of the route at any cost.
NextMinOfferAnyCost(matching) ==
    {[origin_id |-> m.origin_id, dest_id |-> m.dest_id, cost |-> m.cost,
      start_time |->
          Min({i[1].start_time :
                 i \in {j \in matching : /\ j[1].origin_id = m.origin_id
                                         /\ j[1].dest_id = m.dest_id}})] :
        m \in MinOffers(matching)}

\* listQuotesSQL, CTE next_min_offer.
NextMinOffer(matching) ==
    {[origin_id |-> m.origin_id, dest_id |-> m.dest_id, cost |-> m.cost,
      start_time |->
          Min({i[1].start_time :
                 i \in {j \in matching : /\ j[1].origin_id = m.origin_id
                                         /\ j[1].dest_id = m.dest_id
                                         /\ j[1].cost = m.cost}})] :
        m \in MinOffers(matching)}

\* listQuotesSQL, the final SELECT before ORDER BY: next_min_offer joined back
\* to the table offers USING (origin_id, dest_id, cost, start_time).
ListQuotesJoin(q, t) ==
    {[origin_id |-> n.origin_id, dest_id |-> n.dest_id, cost |-> n.cost,
      start_time |-> n.start_time, offer |-> i] :
        <<n, i>> \in
            {<<m, k>> \in NextMinOffer(MatchingOffers(q, t)) \X Instances(offers) :
                /\ k[1].origin_id = m.origin_id
                /\ k[1].dest_id = m.dest_id
                /\ k[1].cost = m.cost
                /\ k[1].start_time = m.start_time}}

\* The columns of the final SELECT, places joined in, as rows.Scan reads them.
ListQuotesRow(j) ==
    [Cost |-> j.cost,
     Origin |-> PlaceByID(j.offer[1].origin_id).name,
     OriginCountry |-> PlaceByID(j.offer[1].origin_id).country,
     Dest |-> PlaceByID(j.offer[1].dest_id).name,
     DestCountry |-> PlaceByID(j.offer[1].dest_id).country,
     Date |-> j.start_time]

\* listQuotesSQL up to ORDER BY: the results the query may produce.
ListQuotesOrdered(q, t) ==
    {[k \in DOMAIN f |-> ListQuotesRow(f[k])] : f \in OrderByCost(ListQuotesJoin(q, t))}

\* listQuotesSQL as a whole.
ListQuotesSQL(q, t) ==
    {LimitOffset(rows, q.Limit, q.Offset) : rows \in ListQuotesOrdered(q, t)}

\* cheapestPerRouteSQL, CTE cheapest.
Cheapest(start, end) ==
    LET inWindow == {i \in Instances(offers) : Between(i[1].start_time, start, end)}
    IN {[origin_id |-> g[1], dest_id |-> g[2],
         start_time |-> Min({i[1].start_time : i \in {j \in inWindow : RouteOf(j[1]) = g}}),
         cost |-> Min({i[1].cost : i \in {j \in inWindow : RouteOf(j[1]) = g}})] :
           g \in {RouteOf(i[1]) : i \in inWindow}}

CheapestRow(c) ==
    [Origin |-> PlaceByID(c.origin_id).iata_code,
     OriginCountry |-> PlaceByID(c.origin_id).country,
     Dest |-> PlaceByID(c.dest_id).iata_code,
     DestCountry |-> PlaceByID(c.dest_id).country,
     Cost |-> c.cost,
     Date |-> c.start_time]

\* cheapestPerRouteSQL as a whole.
CheapestPerRouteSQL(start, end) ==
    {[k \in DOMAIN f |-> CheapestRow(f[k])] : f \in OrderByCost(Cheapest(start, end))}

-----------------------------------------------------------------------------
(* The store's query methods. *)

DefaultLimit == 100

\* The rows SaveOffer can have written for validated offers: positive cost,
\* a source, a start date, a creation time, both airports known.  The offers
\* of the route LGB-JFK have every cost, date and expiration; those of the
\* return route have every expiration at the least cost and the first date.
QueryRoutes == {<<1, 2>>, <<2, 1>>}
QueryRows ==
    {[origin_id |-> g[1], dest_id |-> g[2], cost |-> c, source |-> "kayak",
      start_time |-> d, end_time |-> NULL, created_at |-> Evaluation,
      expires_at |-> e] :
        g \in QueryRoutes, c \in Costs, d \in Dates, e \in {NULL} \cup Expirations}
    \ {r \in [origin_id : {2}, dest_id : {1}, cost : Costs, source : {"kayak"},
               start_time : Dates, end_time : {NULL}, created_at : {Evaluation},
               expires_at : {NULL} \cup Expirations] :
            r.cost # Min(Costs) \/ r.start_time # Min(Dates)}

BagOfSeq(s) == [r \in Range(s) |-> Cardinality({i \in 1..Len(s) : s[i] = r})]

QueryTables == {BagOfSeq(s) : s \in UNION {[1..n -> QueryRows] : n \in 0..MaxOffers}}

\* The filter lists a caller passes: none, one code, two codes, one empty
\* string, one string that holds a separator.
OriginLists == {<< >>, <<LGB>>, <<JFK, LGB>>, <<<< >>>>, <<LGB \o Comma \o JFK>>}
DestLists == {<< >>, <<JFK>>}

\* Requests that vary the window and the filters under the default page, and
\* requests that vary the page with the widest window and no filter.
ListQuotesRequests ==
    [StartDate : Dates, EndDate : Dates, Origins : OriginLists,
     Destinations : DestLists, Limit : {DefaultLimit}, Offset : {0}]
    \cup
    [StartDate : {Min(Dates)}, EndDate : {Max(Dates)}, Origins : {<< >>},
     Destinations : {<< >>}, Limit : {-1} \cup 0..MaxLimit, Offset : 0..MaxLimit]

NoRequest == [op |-> "none"]

\* Store.ListQuotes.  Postgres rejects a negative LIMIT or OFFSET.
ListQuotes ==
    /\ req = NoRequest
    /\ \E q \in ListQuotesRequests :
          /\ req' = [op |-> "ListQuotes", q |-> q]
          /\ IF q.Limit < 0 \/ q.Offset < 0
             THEN /\ res' = << >>
                  /\ err' = "pq: LIMIT must not be negative"
             ELSE /\ res' \in ListQuotesSQL(q, now)
                  /\ err' = ""
    /\ UNCHANGED <<places, offers, now, pc, body, line, saved, resp, stderr, calls, before,
                 httpReq, httpResp, airportIDCache, airportIDCacheMu, lookups>>

\* Store.CheapestPerRoute.
CheapestPerRoute ==
    /\ req = NoRequest
    /\ \E start, end \in Dates :
          /\ req' = [op |-> "CheapestPerRoute", start |-> start, end |-> end]
          /\ res' \in CheapestPerRouteSQL(start, end)
          /\ err' = ""
    /\ UNCHANGED <<places, offers, now, pc, body, line, saved, resp, stderr, calls, before,
                 httpReq, httpResp, airportIDCache, airportIDCacheMu, lookups>>

\* The caller is done with the rows: a query leaves nothing behind.
Return ==
    /\ req # NoRequest
    /\ req' = NoRequest
    /\ res' = << >>
    /\ err' = ""
    /\ UNCHANGED <<places, offers, now, pc, body, line, saved, resp, stderr, calls, before,
                 httpReq, httpResp, airportIDCache, airportIDCacheMu, lookups>>

\* No GET request is being served.
NoHTTP == [path |-> ""]
NoResponse == [status |-> 0]

QueryHandlersIdle ==
    /\ httpReq = NoHTTP
    /\ httpResp = NoResponse

\* The goroutines of the process, and a goroutine outside AirportIDByIATA.
Goroutines == 1..MaxGoroutines
NoLookup ==
    [pc |-> "idle", iata |-> << >>, id |-> 0, ok |-> FALSE, err |-> "", raced |-> FALSE]

\* make(map[string]int), an unlocked mutex, no call running.
CacheIdle ==
    /\ airportIDCache = [c \in {} |-> 0]
    /\ airportIDCacheMu = 0
    /\ lookups = [g \in Goroutines |-> NoLookup]

IngestIdle ==
    /\ pc = "idle"
    /\ body = << >>
    /\ line = 0
    /\ saved = 0
    /\ resp = [status |-> 0]
    /\ stderr = << >>
    /\ calls = {}

InitQuery ==
    /\ places = SeededPlaces
    /\ offers \in QueryTables
    /\ now = Evaluation
    /\ IngestIdle
    /\ QueryHandlersIdle
    /\ CacheIdle
    /\ before = offers
    /\ req = NoRequest
    /\ res = << >>
    /\ err = ""

NextQuery ==
    \/ ListQuotes
    \/ CheapestPerRoute
    \/ Return

SpecQuery == InitQuery /\ [][NextQuery]_vars

-----------------------------------------------------------------------------
(* What the queries are to return, stated on the stored offers. *)

Rows == Range(res)

\* The route of a returned quote.  ListQuotes reports places by name,
\* CheapestPerRoute by airport code.
RouteOfQuote(r) ==
    IF req.op = "ListQuotes"
    THEN <<(CHOOSE p \in places : p.name = r.Origin).place_id,
           (CHOOSE p \in places : p.name = r.Dest).place_id>>
    ELSE <<PlaceIDByIATA(r.Origin), PlaceIDByIATA(r.Dest)>>

StoredRoutes == {RouteOf(o) : o \in BagToSet(offers)}

\* An allow-set: the empty list allows every airport.
Allowed(list, iata) == list = << >> \/ iata \in Range(list)

\* The stored offers of route g with a start date in [start, end].
InWindow(g, start, end) ==
    {o \in BagToSet(offers) :
        RouteOf(o) = g /\ start <= o.start_time /\ o.start_time <= end}

\* The candidates of route g for a ListQuotes request evaluated at t.
Candidates(g, q, t) ==
    {o \in InWindow(g, q.StartDate, q.EndDate) :
        /\ Allowed(q.Origins, PlaceByID(o.origin_id).iata_code)
        /\ Allowed(q.Destinations, PlaceByID(o.dest_id).iata_code)
        /\ o.expires_at # NULL
        /\ o.expires_at > t}

MinCost(S) == Min({o.cost : o \in S})
EarliestAtMinCost(S) == Min({o.start_time : o \in {x \in S : x.cost = MinCost(S)}})

\* The page of the request holds the whole result.
Unpaginated(q) == q.Offset = 0 /\ q.Limit >= BagCardinality(offers)

ListQuotesAnswered == req.op = "ListQuotes" /\ err = ""
CheapestAnswered == req.op = "CheapestPerRoute" /\ err = ""

\* C1: ListQuotes reports every route that has a candidate with the least cost
\* of the route's candidates and the earliest start date among the candidates of
\* that cost: no row of the route says otherwise, and the whole result has a
\* row of the route.
C1_ListQuotesTiebreak ==
    ListQuotesAnswered =>
        \A g \in StoredRoutes :
            LET c == Candidates(g, req.q, now)
            IN c # {} =>
                /\ \A r \in Rows :
                      RouteOfQuote(r) = g =>
                          r.Cost = MinCost(c) /\ r.Date = EarliestAtMinCost(c)
                /\ Unpaginated(req.q) => \E r \in Rows : RouteOfQuote(r) = g

\* Two candidates of one route tie on the least cost with different dates, a
\* third costs more, and the route is reported with the earlier date.
C1_Witness ==
    /\ ListQuotesAnswered
    /\ \E g \in StoredRoutes :
          LET c == Candidates(g, req.q, now)
          IN /\ \E a, b, d \in c : /\ a.cost = b.cost
                                   /\ a.start_time < b.start_time
                                   /\ d.cost > a.cost
                                   /\ d.start_time <= a.start_time
                                   /\ a.cost = MinCost(c)
             /\ \E r \in Rows : RouteOfQuote(r) = g /\ r.Date = EarliestAtMinCost(c)

\* C2: the rows of ListQuotes before the page is cut, and the rows of
\* CheapestPerRoute, hold no route twice.
C2_OneRowPerRoute ==
    (\/ ListQuotesAnswered /\ Unpaginated(req.q)
     \/ CheapestAnswered) =>
        \A i, j \in 1..Len(res) :
            i # j => RouteOfQuote(res[i]) # RouteOfQuote(res[j])

\* C3: every quote of CheapestPerRoute has the least cost of the in-window
\* offers of its route and the earliest start date among those of that cost, so
\* some in-window offer of the route has the cost and the date of the quote.
C3_CheapestTiebreak ==
    CheapestAnswered =>
        \A r \in Rows :
            LET w == InWindow(RouteOfQuote(r), req.start, req.end)
            IN /\ r.Cost = MinCost(w)
               /\ r.Date = EarliestAtMinCost(w)
               /\ \E o \in w : o.cost = r.Cost /\ o.start_time = r.Date

\* C4: a ListQuotes call with limit L and offset K on a result of M rows
\* returns min(L, max(0, M - K)) rows, and they are the rows K+1, K+2, ... of
\* one cost-ascending order of the whole result.
C4_Pagination ==
    ListQuotesAnswered =>
        LET M == Cardinality(ListQuotesJoin(req.q, now))
            L == req.q.Limit
            K == req.q.Offset
            n == Min({L, Max({0, M - K})})
        IN /\ Len(res) = n
           /\ \A i, j \in 1..Len(res) : i < j => res[i].Cost <= res[j].Cost
           /\ \E full \in ListQuotesOrdered(req.q, now) :
                 /\ \A i \in 1..n : res[i] = full[K + i]
                 /\ \A i \in 1..Min({K, M}) : \A r \in Rows : full[i].Cost <= r.Cost

\* A page from the middle of a result: a row is skipped, a row is returned,
\* a row is cut off.
C4_Witness ==
    /\ ListQuotesAnswered
    /\ req.q.Offset = 1
    /\ req.q.Limit = 1
    /\ Cardinality(ListQuotesJoin(req.q, now)) = 3
    /\ Len(res) = 1

\* C10: the window bounds are inclusive.  A quote's cost is positive and is the
\* cost of a stored in-window offer of its route; CheapestPerRoute reports
\* exactly the routes with an in-window offer, at the least in-window cost;
\* the whole result of an unfiltered ListQuotes holds exactly the routes with
\* an in-window offer that has not expired.
C10_Window ==
    /\ (ListQuotesAnswered \/ CheapestAnswered) =>
          \A r \in Rows :
              /\ r.Cost # 0
              /\ \E o \in InWindow(RouteOfQuote(r),
                                   IF req.op = "ListQuotes" THEN req.q.StartDate ELSE req.start,
                                   IF req.op = "ListQuotes" THEN req.q.EndDate ELSE req.end) :
                    o.cost = r.Cost
    /\ CheapestAnswered =>
          /\ {RouteOfQuote(r) : r \in Rows}
                = {g \in StoredRoutes : InWindow(g, req.start, req.end) # {}}
          /\ \A r \in Rows :
                r.Cost = MinCost(InWindow(RouteOfQuote(r), req.start, req.end))
    /\ (/\ ListQuotesAnswered
        /\ Unpaginated(req.q)
        /\ req.q.Origins = << >>
        /\ req.q.Destinations = << >>) =>
          {RouteOfQuote(r) : r \in Rows}
              = {g \in StoredRoutes : Candidates(g, req.q, now) # {}}

\* A one-day window: the route with an offer on that day is reported, the
\* route whose offers all start on another day is not.
C10_Witness ==
    /\ CheapestAnswered
    /\ req.start = req.end
    /\ Len(res) = 1
    /\ \E g \in StoredRoutes : InWindow(g, req.start, req.end) = {}
    /\ \E o \in BagToSet(offers) :
          o.start_time = req.start /\ RouteOfQuote(res[1]) = RouteOf(o)

\* Route g has offers in [start, end], and each of them has an expiration at
\* or before the clock.
AllExpired(g, start, end) ==
    /\ InWindow(g, start, end) # {}
    /\ \A o \in InWindow(g, start, end) : o.expires_at # NULL /\ o.expires_at <= now

\* C11: a route whose in-window offers all have an expiration at or before the
\* evaluation time has no row in the answer of ListQuotes, and has a row in the
\* answer of CheapestPerRoute over the same window; every row of ListQuotes has
\* the cost of an in-window offer of its route that expires strictly later than
\* the evaluation time.
C11_ExpirationAsymmetry ==
    /\ ListQuotesAnswered =>
          /\ \A g \in StoredRoutes :
                AllExpired(g, req.q.StartDate, req.q.EndDate) =>
                    \A r \in Rows : RouteOfQuote(r) # g
          /\ \A r \in Rows :
                \E o \in InWindow(RouteOfQuote(r), req.q.StartDate, req.q.EndDate) :
                    /\ o.expires_at # NULL
                    /\ o.expires_at > now
                    /\ o.cost = r.Cost
    /\ CheapestAnswered =>
          \A g \in StoredRoutes :
              AllExpired(g, req.start, req.end) => \E r \in Rows : RouteOfQuote(r) = g

\* ListQuotes answers with a row of one route and none of the other, whose
\* in-window offers all expire at the evaluation time itself.
C11_Witness ==
    /\ ListQuotesAnswered
    /\ Len(res) = 1
    /\ \E g \in StoredRoutes :
          /\ AllExpired(g, req.q.StartDate, req.q.EndDate)
          /\ \A o \in InWindow(g, req.q.StartDate, req.q.EndDate) : o.expires_at = now
          /\ RouteOfQuote(res[1]) # g

-----------------------------------------------------------------------------
(* Offers, validation and Store.SaveOffer. *)

\* A validation that lets any cost through.
ValidateAnyCost(o) ==
    IF o.Source = "" THEN "missing source"
    ELSE IF o.OfferedAt = ZeroTime THEN "missing offeredAt"
    ELSE IF o.AvailableFrom = ZeroTime THEN "missing availableFrom"
    ELSE ""

\* Offer.Validate: the first check that fails, "" for nil.
Validate(o) ==
    IF o.Cost <= 0 THEN "missing cost"
    ELSE IF o.Source = "" THEN "missing source"
    ELSE IF o.OfferedAt = ZeroTime THEN "missing offeredAt"
    ELSE IF o.AvailableFrom = ZeroTime THEN "missing availableFrom"
    ELSE ""

\* A conversion that sends a zero time as it is.
NullTimeAlwaysValid(t) == t

\* pq.NullTime{Time: t, Valid: !t.IsZero()}: a zero time is sent as NULL.
NullTime(t) == IF t = ZeroTime THEN NULL ELSE t

\* The row the INSERT of SaveOffer builds: both airports by scalar subquery.
InsertRow(o) ==
    [origin_id |-> PlaceIDByIATA(o.OriginAirport),
     dest_id |-> PlaceIDByIATA(o.DestinationAirport),
     cost |-> o.Cost,
     source |-> o.Source,
     start_time |-> NullTime(o.AvailableFrom),
     end_time |-> NullTime(o.AvailableTo),
     created_at |-> o.OfferedAt,
     expires_at |-> NullTime(o.ExpiresAt)]

NoError == [kind |-> "nil"]
StorageError == [kind |-> "storage"]

\* A SaveOffer that passes Postgres's report on unreworded.
SaveOfferErrorUnreworded(o, down) ==
    LET row == InsertRow(o)
    IN IF down \/ row.origin_id = NULL \/ row.dest_id = NULL \/ row.start_time = NULL
       THEN StorageError
       ELSE NoError

\* The error Store.SaveOffer returns.  down: the statement did not reach the
\* tables (connection lost, context cancelled).  Otherwise Postgres reports the
\* first NOT NULL column of the row that is NULL, and SaveOffer rewords the
\* report for origin_id and dest_id.
SaveOfferError(o, down) ==
    LET row == InsertRow(o)
    IN IF down THEN StorageError
       ELSE IF row.origin_id = NULL
       THEN [kind |-> "unknown origin airport", code |-> o.OriginAirport]
       ELSE IF row.dest_id = NULL
       THEN [kind |-> "unknown destination airport", code |-> o.DestinationAirport]
       ELSE IF row.start_time = NULL
       THEN StorageError
       ELSE NoError

\* The table offers after Store.SaveOffer.
SaveOfferTable(o, down) ==
    IF SaveOfferError(o, down) = NoError
    THEN offers (+) SetToBag({InsertRow(o)})
    ELSE offers

-----------------------------------------------------------------------------
(* Handler.HandleAddOffers. *)

\* What json.Unmarshal makes of the lines a collector sends.
FullOffer ==
    [OriginAirport |-> LGB, DestinationAirport |-> JFK, Cost |-> 1,
     Source |-> "kayak", AvailableFrom |-> 1, AvailableTo |-> 2,
     OfferedAt |-> Evaluation, ExpiresAt |-> Evaluation + 1]

\* Offers that pass Validate: with and without each optional field, and with
\* an origin, a destination or both that places may not hold.
GoodOffers ==
    {[FullOffer EXCEPT !.AvailableTo = t, !.ExpiresAt = e] :
        t \in {ZeroTime, 2}, e \in {ZeroTime, Evaluation + 1}}
    \cup
    { [FullOffer EXCEPT !.OriginAirport = SFO],
      [FullOffer EXCEPT !.DestinationAirport = SFO],
      [FullOffer EXCEPT !.OriginAirport = SFO, !.DestinationAirport = SFO] }

\* Offers with one required field missing, and the offer of the line {}.
BadOffers ==
    { [FullOffer EXCEPT !.Cost = 0],
      [FullOffer EXCEPT !.Source = ""],
      [FullOffer EXCEPT !.OfferedAt = ZeroTime],
      [FullOffer EXCEPT !.AvailableFrom = ZeroTime],
      [FullOffer EXCEPT !.OriginAirport = SFO, !.Cost = 0],
      [OriginAirport |-> << >>, DestinationAirport |-> << >>, Cost |-> 0,
       Source |-> "", AvailableFrom |-> ZeroTime, AvailableTo |-> ZeroTime,
       OfferedAt |-> ZeroTime, ExpiresAt |-> ZeroTime] }

\* A line of the body: a JSON object, text that is no JSON, or a line longer
\* than bufio.Scanner's buffer.
Lines ==
    {[kind |-> "json", offer |-> o] : o \in GoodOffers \cup BadOffers}
    \cup {[kind |-> "bad json"], [kind |-> "too long"]}

Bodies == UNION {[1..n -> Lines] : n \in 0..MaxBatch}

InternalServerError == [status |-> 500, text |-> "Internal Server Error"]
BadRequest(n, reason) == [status |-> 400, line |-> n, reason |-> reason]

\* A POST /offers request arrives.
AddOffersBegin ==
    /\ pc = "idle"
    /\ \E b \in Bodies :
          /\ BagCardinality(offers) + Len(b) <= MaxOffers
          /\ body' = b
    /\ pc' = "scan"
    /\ line' = 1
    /\ saved' = 0
    /\ resp' = [status |-> 0]
    /\ stderr' = << >>
    /\ calls' = {}
    /\ before' = offers
    /\ UNCHANGED <<places, offers, now, req, res, err,
                 httpReq, httpResp, airportIDCache, airportIDCacheMu, lookups>>

\* The loop ends: scanner.Scan() returns false.
AddOffersEnd ==
    /\ pc = "scan"
    /\ \/ /\ line > Len(body)
          /\ resp' = [status |-> 200, saved |-> saved]
          /\ stderr' = stderr
       \/ /\ line <= Len(body)
          /\ body[line].kind = "too long"
          /\ resp' = InternalServerError
          /\ stderr' = Append(stderr, [kind |-> "bufio.Scanner: token too long"])
    /\ pc' = "done"
    /\ UNCHANGED <<places, offers, now, body, line, saved, calls, before, req, res, err,
                 httpReq, httpResp, airportIDCache, airportIDCacheMu, lookups>>

\* One iteration of the loop on a line that does not reach the store.
AddOffersReject ==
    /\ pc = "scan"
    /\ line <= Len(body)
    /\ \/ /\ body[line].kind = "bad json"
          /\ resp' = BadRequest(line, "bad json")
       \/ /\ body[line].kind = "json"
          /\ Validate(body[line].offer) # ""
          /\ resp' = BadRequest(line, Validate(body[line].offer))
    /\ pc' = "done"
    /\ UNCHANGED <<places, offers, now, body, line, saved, stderr, calls, before, req, res, err,
                 httpReq, httpResp, airportIDCache, airportIDCacheMu, lookups>>

\* A loop that logs a failed save and goes on to the next line.
AddOffersSaveAndGoOn(down) ==
    /\ pc = "scan"
    /\ line <= Len(body)
    /\ body[line].kind = "json"
    /\ Validate(body[line].offer) = ""
    /\ calls' = calls \cup {[line |-> line, down |-> down]}
    /\ offers' = SaveOfferTable(body[line].offer, down)
    /\ line' = line + 1
    /\ IF SaveOfferError(body[line].offer, down) = NoError
       THEN /\ saved' = saved + 1
            /\ UNCHANGED stderr
       ELSE /\ stderr' = Append(stderr, SaveOfferError(body[line].offer, down))
            /\ UNCHANGED saved
    /\ UNCHANGED <<places, now, pc, resp, body, before, req, res, err,
                 httpReq, httpResp, airportIDCache, airportIDCacheMu, lookups>>

\* One iteration of the loop on a line that passes Validate.
AddOffersSave(down) ==
    /\ pc = "scan"
    /\ line <= Len(body)
    /\ body[line].kind = "json"
    /\ Validate(body[line].offer) = ""
    /\ calls' = calls \cup {[line |-> line, down |-> down]}
    /\ offers' = SaveOfferTable(body[line].offer, down)
    /\ IF SaveOfferError(body[line].offer, down) = NoError
       THEN /\ saved' = saved + 1
            /\ line' = line + 1
            /\ UNCHANGED <<pc, resp, stderr>>
       ELSE /\ stderr' = Append(stderr, SaveOfferError(body[line].offer, down))
            /\ resp' = InternalServerError
            /\ pc' = "done"
            /\ UNCHANGED <<saved, line>>
    /\ UNCHANGED <<places, now, body, before, req, res, err,
                 httpReq, httpResp, airportIDCache, airportIDCacheMu, lookups>>

\* The handler has returned; the next request may come.
AddOffersReturn ==
    /\ pc = "done"
    /\ pc' = "idle"
    /\ body' = << >>
    /\ line' = 0
    /\ saved' = 0
    /\ resp' = [status |-> 0]
    /\ stderr' = << >>
    /\ calls' = {}
    /\ before' = offers
    /\ UNCHANGED <<places, offers, now, req, res, err,
                 httpReq, httpResp, airportIDCache, airportIDCacheMu, lookups>>

\* An airport is added to places by the seeding outside the program.
SeedPlace ==
    /\ LatePlace \notin places
    /\ places' = places \cup {LatePlace}
    /\ UNCHANGED <<offers, now, pc, body, line, saved, resp, stderr, calls, before, req, res, err,
                 httpReq, httpResp, airportIDCache, airportIDCacheMu, lookups>>

Init ==
    /\ places = SeededPlaces
    /\ offers = EmptyBag
    /\ now = Evaluation
    /\ IngestIdle
    /\ QueryHandlersIdle
    /\ CacheIdle
    /\ before = EmptyBag
    /\ req = NoRequest
    /\ res = << >>
    /\ err = ""

Next ==
    \/ AddOffersBegin
    \/ AddOffersEnd
    \/ AddOffersReject
    \/ \E down \in BOOLEAN : AddOffersSave(down)
    \/ AddOffersReturn
    \/ SeedPlace

Spec == Init /\ [][Next]_vars

-----------------------------------------------------------------------------
(* What ingestion is to do, stated on the request and the table. *)

InRequest == pc \in {"scan", "done"}
Failed == pc = "done" /\ resp.status # 200
Accepted == pc = "done" /\ resp.status = 200

\* The required fields of an offer are present.
RequiredFields(o) ==
    /\ o.Cost > 0
    /\ o.Source # ""
    /\ o.OfferedAt # ZeroTime
    /\ o.AvailableFrom # ZeroTime

\* The rows of the first n lines of the body.
RowsOfLines(n) == BagOfSeq([i \in 1..n |-> InsertRow(body[i].offer)])

LastError == IF stderr = << >> THEN NoError ELSE stderr[Len(stderr)]

\* C5: the lines of a request are handled in order, one save per step; the
\* table always holds exactly the rows of the lines before the current one on
\* top of what it held before; after a failure at a line that line number
\* stays, no row is added, and the rows of the earlier lines stay.
C5_SequentialBatch ==
    /\ [](InRequest =>
            /\ line = saved + 1
            /\ \A c \in calls : c.line <= line
            /\ offers = before (+) RowsOfLines(saved)
            /\ Failed => line <= Len(body)
            /\ Accepted => saved = Len(body))
    /\ [][/\ (pc = "scan" /\ (line' # line \/ offers' # offers)) =>
                /\ pc' = "scan"
                /\ line' = line + 1
                /\ offers' = offers (+) SetToBag({InsertRow(body[line].offer)})
          /\ pc = "done" => offers' = offers]_vars

\* Two lines, the second no JSON: the first is in the table, the request
\* failed at line 2.
C5_Witness ==
    /\ Failed
    /\ Len(body) = 2
    /\ body[2].kind = "bad json"
    /\ line = 2
    /\ saved = 1
    /\ offers = before (+) SetToBag({InsertRow(body[1].offer)})

\* C6: a failed request answers with the number of the line it failed at and
\* the reason, whether the line was no JSON, failed Validate or failed in
\* SaveOffer.
C6_FailureNamesLine ==
    (Failed /\ body[line].kind \in {"json", "bad json"}) =>
        /\ "line" \in DOMAIN resp
        /\ resp.line = line
        /\ resp.reason # ""

\* The request a saved offer is covered by: its start date, its airports.
CoveringRequest(o) ==
    [StartDate |-> o.AvailableFrom, EndDate |-> o.AvailableFrom,
     Origins |-> <<o.OriginAirport>>, Destinations |-> <<o.DestinationAirport>>,
     Limit |-> DefaultLimit, Offset |-> 0]

\* C7: an accepted request of N lines reports N saved, the table has N more
\* rows, and every offer of it that has not expired is a candidate of the
\* ListQuotes request that covers it, with or without availableTo and expiresAt.
C7_SavedRetrievable ==
    Accepted =>
        /\ resp.saved = Len(body)
        /\ BagCardinality(offers) = BagCardinality(before) + Len(body)
        /\ \A i \in 1..Len(body) :
              LET o == body[i].offer
              IN (o.ExpiresAt = ZeroTime \/ o.ExpiresAt > now) =>
                    \E m \in MatchingOffers(CoveringRequest(o), now) :
                        m[1] = InsertRow(o)

\* C8: a SaveOffer call that reaches the tables, for an offer with an airport
\* that places does not hold, returns the error that names the field and the
\* code and leaves the table as it was; with both airports in places it adds
\* one row that refers to the two places.  A call that does not reach the
\* tables changes nothing.
C8_SaveOffer ==
    [][calls' \ calls # {} =>
        LET o == body[line].offer
            down == (CHOOSE c \in calls' \ calls : TRUE).down
            origin == {p \in places : p.iata_code = o.OriginAirport}
            dest == {p \in places : p.iata_code = o.DestinationAirport}
        IN IF down
           THEN offers' = offers /\ LastError' = StorageError
           ELSE IF origin = {}
           THEN /\ offers' = offers
                /\ LastError' = [kind |-> "unknown origin airport", code |-> o.OriginAirport]
           ELSE IF dest = {}
           THEN /\ offers' = offers
                /\ LastError' = [kind |-> "unknown destination airport",
                                 code |-> o.DestinationAirport]
           ELSE /\ stderr' = stderr
                /\ \E p \in origin, d \in dest, r \in BagToSet(offers') :
                      /\ r.origin_id = p.place_id
                      /\ r.dest_id = d.place_id
                      /\ offers' = offers (+) SetToBag({r})]_vars

\* The second line of a request names a destination that places does not
\* hold: the call failed with that code, the table holds the first line only.
C8_Witness ==
    /\ Failed
    /\ line = 2
    /\ LastError = [kind |-> "unknown destination airport", code |-> SFO]
    /\ BagCardinality(offers) = BagCardinality(before) + 1

\* C9: every stored offer has a positive cost, a source, a creation time and a
\* start date; SaveOffer is called only for lines whose offer has its required
\* fields, and never for the line a request was rejected at.
C9_ValidatedBeforeStored ==
    /\ \A r \in BagToSet(offers) :
          /\ r.cost > 0
          /\ r.source # ""
          /\ r.created_at \notin {ZeroTime, NULL}
          /\ r.start_time \notin {ZeroTime, NULL}
    /\ \A c \in calls :
          body[c.line].kind = "json" /\ RequiredFields(body[c.line].offer)
    /\ (Failed /\ resp.status = 400) => \A c \in calls : c.line # line

\* Two lines, the second with cost 0: rejected at line 2 as "missing cost"
\* with one store call, for line 1.
C9_Witness ==
    /\ Failed
    /\ resp = BadRequest(2, "missing cost")
    /\ {c.line : c \in calls} = {1}
    /\ BagCardinality(offers) = BagCardinality(before) + 1

-----------------------------------------------------------------------------
(* ListQuotesRequest.FromHTTP: time.Parse and strconv.Atoi on form values.  *)
(* A form value is a sequence of one-character strings; FormValue gives     *)
(* << >> for a parameter that is absent.  A parsed date is the number of    *)
(* days from 2005-12-31 to it, so that 2006-01-01 is instant 1.             *)

DigitChars == <<"0", "1", "2", "3", "4", "5", "6", "7", "8", "9">>

IsDigits(s) == s # << >> /\ \A i \in 1..Len(s) : s[i] \in Range(DigitChars)

DigitValue(c) == (CHOOSE i \in 1..Len(DigitChars) : DigitChars[i] = c) - 1

\* The number a string of decimal digits denotes.
RECURSIVE Decimal(_)
Decimal(s) ==
    IF s = << >> THEN 0
    ELSE 10 * Decimal(SubSeq(s, 1, Len(s) - 1)) + DigitValue(s[Len(s)])

\* The decimal digits of a natural number.
RECURSIVE Itoa(_)
Itoa(n) == IF n < 10 THEN <<DigitChars[n + 1]>> ELSE Itoa(n \div 10) \o <<DigitChars[(n % 10) + 1]>>

\* strconv.Atoi: an optional sign, then one digit or more.
AtoiOK(s) ==
    /\ s # << >>
    /\ IsDigits(IF s[1] \in {"+", "-"} THEN Tail(s) ELSE s)

\* The int strconv.Atoi returns; 0 with a syntax error, which FromHTTP drops.
Atoi(s) ==
    IF ~AtoiOK(s) THEN 0
    ELSE IF s[1] = "-" THEN 0 - Decimal(Tail(s))
    ELSE IF s[1] = "+" THEN Decimal(Tail(s))
    ELSE Decimal(s)

IsLeap(y) == y % 4 = 0 /\ (y % 100 # 0 \/ y % 400 = 0)

DaysIn(y, m) ==
    IF m = 2 THEN (IF IsLeap(y) THEN 29 ELSE 28)
    ELSE IF m \in {4, 6, 9, 11} THEN 30
    ELSE 31

\* The days from 0000-03-01 to the date y-m-d of the proleptic Gregorian
\* calendar.
DaysFromCivil(y, m, d) ==
    LET yy == IF m <= 2 THEN y - 1 ELSE y
        mm == IF m > 2 THEN m - 3 ELSE m + 9
    IN 365 * yy + (yy \div 4) - (yy \div 100) + (yy \div 400)
         + ((153 * mm + 2) \div 5) + d - 1

NoDate == [ok |-> FALSE, t |-> 0]

\* time.Parse("2006-01-02", s): four digits, two digits, two digits, nothing
\* else; the month is a month and the day is a day of it.
ParseDate(s) ==
    IF /\ Len(s) = 10
       /\ s[5] = "-"
       /\ s[8] = "-"
       /\ IsDigits(SubSeq(s, 1, 4))
       /\ IsDigits(SubSeq(s, 6, 7))
       /\ IsDigits(SubSeq(s, 9, 10))
    THEN LET y == Decimal(SubSeq(s, 1, 4))
             m == Decimal(SubSeq(s, 6, 7))
             d == Decimal(SubSeq(s, 9, 10))
         IN IF m \in 1..12 /\ d \in 1..DaysIn(y, m)
            THEN [ok |-> TRUE, t |-> DaysFromCivil(y, m, d) - DaysFromCivil(2005, 12, 31)]
            ELSE NoDate
    ELSE NoDate

\* A FromHTTP whose offset defaults as its limit does.
FromHTTPDefaultsOffset(f) ==
    IF ~ParseDate(f.start).ok THEN [err |-> "invalid 'start'"]
    ELSE IF ~ParseDate(f.end).ok THEN [err |-> "invalid 'end'"]
    ELSE [err |-> "",
          q |-> [StartDate |-> ParseDate(f.start).t,
                 EndDate |-> ParseDate(f.end).t,
                 Origins |-> f.origin,
                 Destinations |-> f.dest,
                 Limit |-> IF Atoi(f.limit) = 0 THEN DefaultLimit ELSE Atoi(f.limit),
                 Offset |-> IF Atoi(f.offset) = 0 THEN DefaultLimit ELSE Atoi(f.offset)]]

\* ListQuotesRequest.FromHTTP: the error, or nil ("") and the request.
FromHTTP(f) ==
    IF ~ParseDate(f.start).ok THEN [err |-> "invalid 'start'"]
    ELSE IF ~ParseDate(f.end).ok THEN [err |-> "invalid 'end'"]
    ELSE [err |-> "",
          q |-> [StartDate |-> ParseDate(f.start).t,
                 EndDate |-> ParseDate(f.end).t,
                 Origins |-> f.origin,
                 Destinations |-> f.dest,
                 Limit |-> IF Atoi(f.limit) = 0 THEN DefaultLimit ELSE Atoi(f.limit),
                 Offset |-> Atoi(f.offset)]]

-----------------------------------------------------------------------------
(* Handler.HandleListQuotes and Handler.HandleCheapestPerRoute. *)

\* The text of a day of January 2006, as a collector writes a date.
JanuaryText(d) ==
    <<"2", "0", "0", "6", "-", "0", "1", "-">>
        \o (IF d < 10 THEN <<"0">> \o Itoa(d) ELSE Itoa(d))

\* Values of start and end: the days of the stored offers, nothing, a day
\* that no month has, a date in another layout.
DateTexts ==
    {JanuaryText(d) : d \in Dates}
    \cup { << >>,
           <<"2", "0", "0", "6", "-", "0", "2", "-", "3", "0">>,
           <<"0", "1", "/", "0", "2", "/", "2", "0", "0", "6">> }

\* Values of limit and offset: nothing, numbers, a negative number, a number
\* with a sign, a number with a zero in front, text that is no number.
NumberTexts ==
    {Itoa(n) : n \in 0..MaxLimit}
    \cup { << >>, <<"-", "1">>, <<"+", "1">>, <<"0", "2">>, <<"t", "e", "n">> }

\* r.Form of a GET /quotes request: forms that vary the window and the filters
\* without a page, and forms that vary the page on the widest window.
Forms ==
    [start : DateTexts, end : DateTexts, origin : OriginLists, dest : DestLists,
     limit : {<< >>}, offset : {<< >>}]
    \cup
    [start : {JanuaryText(Min(Dates))}, end : {JanuaryText(Max(Dates))},
     origin : {<< >>}, dest : {<< >>}, limit : NumberTexts, offset : NumberTexts]

\* The error of a query that did not reach the tables.
BadConnection == "driver: bad connection"

\* Handler.HandleListQuotes.  down: Store.ListQuotes did not reach the tables.
HandleListQuotes ==
    /\ pc = "idle"
    /\ httpReq = NoHTTP
    /\ \E f \in Forms :
          /\ httpReq' = [path |-> "/quotes", form |-> f]
          /\ IF FromHTTP(f).err # ""
             THEN /\ httpResp' = [status |-> 400, text |-> FromHTTP(f).err]
                  /\ UNCHANGED <<req, res, err, stderr>>
             ELSE LET q == FromHTTP(f).q
                  IN /\ req' = [op |-> "ListQuotes", q |-> q]
                     /\ \E down \in BOOLEAN :
                           IF down \/ q.Limit < 0 \/ q.Offset < 0
                           THEN /\ res' = << >>
                                /\ err' = IF down THEN BadConnection
                                          ELSE "pq: LIMIT must not be negative"
                                /\ stderr' = Append(stderr, [kind |-> "query", text |-> err'])
                                /\ httpResp' = [status |-> 500, text |-> err']
                           ELSE /\ res' \in ListQuotesSQL(q, now)
                                /\ err' = ""
                                /\ stderr' = stderr
                                /\ httpResp' = [status |-> 200, quotes |-> res']
    /\ UNCHANGED <<places, offers, now, pc, body, line, saved, resp, calls, before,
                   airportIDCache, airportIDCacheMu, lookups>>

\* Handler.HandleCheapestPerRoute.  The window starts at time.Now(), the
\* start of day now or a later instant of it, and start_time holds whole days:
\* the first day of the window is now or now + 1.
HandleCheapestPerRoute ==
    /\ pc = "idle"
    /\ httpReq = NoHTTP
    /\ httpReq' = [path |-> "/quotes/cheapest"]
    /\ \E start \in {now, now + 1}, down \in BOOLEAN :
          /\ req' = [op |-> "CheapestPerRoute", start |-> start, end |-> now + 30]
          /\ IF down
             THEN /\ res' = << >>
                  /\ err' = BadConnection
                  /\ stderr' = Append(stderr, [kind |-> "query", text |-> err'])
                  /\ httpResp' = [status |-> 500, text |-> err']
             ELSE /\ res' \in CheapestPerRouteSQL(start, now + 30)
                  /\ err' = ""
                  /\ stderr' = stderr
                  /\ httpResp' =
                        [status |-> 200,
                         lines |-> [i \in DOMAIN res' |->
                                       <<res'[i].Origin, res'[i].Dest, res'[i].Cost>>]]
    /\ UNCHANGED <<places, offers, now, pc, body, line, saved, resp, calls, before,
                   airportIDCache, airportIDCacheMu, lookups>>

\* The query handler has returned.
HandleQueryReturn ==
    /\ httpReq # NoHTTP
    /\ httpReq' = NoHTTP
    /\ httpResp' = NoResponse
    /\ req' = NoRequest
    /\ res' = << >>
    /\ err' = ""
    /\ stderr' = << >>
    /\ UNCHANGED <<places, offers, now, pc, body, line, saved, resp, calls, before,
                   airportIDCache, airportIDCacheMu, lookups>>

\* Handler.HandleAddOffers is entered; the model serves one request at a time.
ServeAddOffers ==
    /\ httpReq = NoHTTP
    /\ AddOffersBegin

\* Handler.ServeHTTP: the three routes.
NextServer ==
    \/ ServeAddOffers
    \/ AddOffersEnd
    \/ AddOffersReject
    \/ \E down \in BOOLEAN : AddOffersSave(down)
    \/ AddOffersReturn
    \/ SeedPlace
    \/ HandleListQuotes
    \/ HandleCheapestPerRoute
    \/ HandleQueryReturn

SpecServer == Init /\ [][NextServer]_vars

-----------------------------------------------------------------------------
(* What the HTTP operations are to do. *)

QuotesServed == httpReq.path = "/quotes"
CheapestServed == httpReq.path = "/quotes/cheapest"

\* The save of the line the addOffers request stopped at failed.
SaveFailed == pc = "done" /\ \E c \in calls : c.line = line

\* C12: when a store operation fails, the HTTP operation answers with status
\* 500 and the generic text, which is not the text of the store's error, and
\* the error is in the log: for addOffers, cheapestPerRoute and listQuotes.
C12_GenericFailure ==
    /\ SaveFailed =>
          /\ resp = InternalServerError
          /\ stderr # << >>
    /\ ((QuotesServed \/ CheapestServed) /\ err # "") =>
          /\ httpResp.status = 500
          /\ httpResp.text = InternalServerError.text
          /\ httpResp.text # err
          /\ \E e \in Range(stderr) : e.text = err

\* The dates of the year 2006, written year-month-day, and their instants.
MonthLengths2006 == <<31, 28, 31, 30, 31, 30, 31, 31, 30, 31, 30, 31>>

TwoDigits(n) == IF n < 10 THEN <<"0">> \o Itoa(n) ELSE Itoa(n)

RECURSIVE DaysBefore2006(_)
DaysBefore2006(m) == IF m = 1 THEN 0 ELSE DaysBefore2006(m - 1) + MonthLengths2006[m - 1]

DatesOf2006 ==
    {[text |-> <<"2", "0", "0", "6", "-">> \o TwoDigits(m) \o <<"-">> \o TwoDigits(d),
      t |-> DaysBefore2006(m) + d] :
        <<m, d>> \in {md \in (1..12) \X (1..31) : md[2] <= MonthLengths2006[md[1]]}}

IsDate(s) == \E x \in DatesOf2006 : x.text = s
DateOf(s) == (CHOOSE x \in DatesOf2006 : x.text = s).t

\* The text s supplies the integer n: decimal digits, with or without a sign
\* and a zero in front.
Supplies(s, n) ==
    \E sign \in {<< >>, <<"+">>, <<"-">>}, zero \in {<< >>, <<"0">>} :
        /\ s = sign \o zero \o Itoa(IF n < 0 THEN 0 - n ELSE n)
        /\ sign = <<"-">> => n <= 0
        /\ sign = <<"+">> => n >= 0

IsInteger(s) ==
    \E sign \in {<< >>, <<"+">>, <<"-">>} :
        \E k \in 1..Len(s) :
            /\ s = sign \o SubSeq(s, Len(s) - k + 1, Len(s))
            /\ \A i \in (Len(s) - k + 1)..Len(s) : s[i] \in Range(DigitChars)

\* What C13 says of every GET /quotes but the limit and the offset: the
\* request fails as a bad request, with no store call, iff start or end is no
\* date; otherwise the store is called with the dates and the lists of the form.
FacadeDatesAndLists ==
    LET f == httpReq.form
    IN /\ httpResp.status = 400 <=> (~IsDate(f.start) \/ ~IsDate(f.end))
       /\ httpResp.status = 400 =>
             /\ req = NoRequest
             /\ httpResp.text \in {"invalid 'start'", "invalid 'end'"}
       /\ httpResp.status # 400 =>
             /\ req.op = "ListQuotes"
             /\ req.q.StartDate = DateOf(f.start)
             /\ req.q.EndDate = DateOf(f.end)
             /\ req.q.Origins = f.origin
             /\ req.q.Destinations = f.dest

\* C13 as claimed: the limit is 100 when the limit parameter is absent or
\* zero and the supplied value otherwise; the offset is 0 when absent and the
\* supplied value otherwise.
C13_QueryFacade ==
    QuotesServed =>
        /\ FacadeDatesAndLists
        /\ httpResp.status # 400 =>
              LET f == httpReq.form
              IN /\ IF f.limit = << >> \/ Supplies(f.limit, 0)
                    THEN req.q.Limit = DefaultLimit
                    ELSE Supplies(f.limit, req.q.Limit)
                 /\ IF f.offset = << >>
                    THEN req.q.Offset = 0
                    ELSE Supplies(f.offset, req.q.Offset)

\* C13 as amended: a limit or offset parameter that is no decimal integer
\* counts as absent.
C13_QueryFacadeAmended ==
    QuotesServed =>
        /\ FacadeDatesAndLists
        /\ httpResp.status # 400 =>
              LET f == httpReq.form
              IN /\ IF ~IsInteger(f.limit) \/ Supplies(f.limit, 0)
                    THEN req.q.Limit = DefaultLimit
                    ELSE Supplies(f.limit, req.q.Limit)
                 /\ IF ~IsInteger(f.offset)
                    THEN req.q.Offset = 0
                    ELSE Supplies(f.offset, req.q.Offset)

\* A request with both dates, limit 0 and the offset "ten" reached the store
\* with limit 100 and offset 0.
C13_Witness ==
    /\ QuotesServed
    /\ httpReq.form.limit = <<"0">>
    /\ httpReq.form.offset = <<"t", "e", "n">>
    /\ req.op = "ListQuotes"
    /\ req.q.Limit = DefaultLimit
    /\ req.q.Offset = 0
    /\ httpResp.status = 200

\* The rows of a table that have no expiration.
WithoutExpiration(table) == {i \in Instances(table) : i[1].expires_at = NULL}

\* Route g has offers in [start, end], and none of them has an expiration.
NoneExpires(g, start, end) ==
    /\ InWindow(g, start, end) # {}
    /\ \A o \in InWindow(g, start, end) : o.expires_at = NULL

\* C16: the saved lines of a request that have no expiresAt are in the table
\* as rows with a NULL expiration, one each; a route whose in-window offers all
\* have no expiration has no row in any answer of GET /quotes, and has a row in
\* the answer of GET /quotes/cheapest.
C16_NoExpirationNeverListed ==
    /\ InRequest =>
          Cardinality(WithoutExpiration(offers))
              = Cardinality(WithoutExpiration(before))
                  + Cardinality({i \in 1..saved : body[i].offer.ExpiresAt = ZeroTime})
    /\ (QuotesServed /\ ListQuotesAnswered) =>
          \A g \in StoredRoutes :
              NoneExpires(g, req.q.StartDate, req.q.EndDate) =>
                  \A r \in Rows : RouteOfQuote(r) # g
    /\ (CheapestServed /\ CheapestAnswered) =>
          \A g \in StoredRoutes :
              NoneExpires(g, req.start, req.end) => \E r \in Rows : RouteOfQuote(r) = g

\* The table holds offers of one route only, none with an expiration, and
\* GET /quotes over a window that holds them answers with no row.
C16_Witness ==
    /\ QuotesServed
    /\ ListQuotesAnswered
    /\ res = << >>
    /\ req.q.Origins = << >>
    /\ req.q.Destinations = << >>
    /\ \E g \in StoredRoutes :
          /\ StoredRoutes = {g}
          /\ NoneExpires(g, req.q.StartDate, req.q.EndDate)

-----------------------------------------------------------------------------
(* Store.AirportIDByIATA, called by several goroutines.  A read or a write  *)
(* of the map airportIDCache takes time: it begins in one step and ends in  *)
(* another.  A read that another goroutine's write overlaps is a data race: *)
(* Go's runtime may stop the process ("fatal error: concurrent map read and *)
(* map write") or the read may give any of the values below.                *)

\* The codes the callers ask for: one that places holds, one that it may
\* come to hold.
LookupCodes == {LGB, SFO}

NoRows == "sql: no rows in result set"

\* What a read of the map may give when a write overlaps it.
RacedReads ==
    [id : {0} \cup {p.place_id : p \in SeededPlaces \cup {LatePlace}}, ok : BOOLEAN]

\* The map after airportIDCache[iata] = id.
MapAssign(cache, iata, id) ==
    [c \in DOMAIN cache \cup {iata} |-> IF c = iata THEN id ELSE cache[c]]

\* id, ok := airportIDCache[iata]
MapIndex(cache, iata) ==
    IF iata \in DOMAIN cache THEN [id |-> cache[iata], ok |-> TRUE]
    ELSE [id |-> 0, ok |-> FALSE]

Writing == {g \in Goroutines : lookups[g].pc = "write"}
Reading == {g \in Goroutines : lookups[g].pc = "read"}

\* AirportIDByIATA is called; the read of the map in its first statement
\* begins.
LookupCall(g) ==
    /\ lookups[g].pc = "idle"
    /\ \E iata \in LookupCodes :
          lookups' = [lookups EXCEPT ![g] =
                         [NoLookup EXCEPT !.pc = "read", !.iata = iata,
                                          !.raced = Writing # {}]]
    /\ UNCHANGED <<places, offers, now, pc, body, line, saved, resp, stderr, calls, before,
                   req, res, err, httpReq, httpResp, airportIDCache, airportIDCacheMu>>

\* The read ends: a hit returns, a miss goes on to the query.
LookupRead(g) ==
    /\ lookups[g].pc = "read"
    /\ \/ \E v \in (IF lookups[g].raced THEN RacedReads
                    ELSE {MapIndex(airportIDCache, lookups[g].iata)}) :
             lookups' = [lookups EXCEPT ![g].id = v.id, ![g].ok = v.ok,
                                        ![g].pc = IF v.ok THEN "done" ELSE "query"]
       \/ /\ lookups[g].raced
          /\ lookups' = [h \in Goroutines |-> [lookups[h] EXCEPT !.pc = "fatal"]]
    /\ UNCHANGED <<places, offers, now, pc, body, line, saved, resp, stderr, calls, before,
                   req, res, err, httpReq, httpResp, airportIDCache, airportIDCacheMu>>

\* A lookup that stores 0 for a code the table does not hold.
LookupQueryCachingFailure(g) ==
    /\ lookups[g].pc = "query"
    /\ \E down \in BOOLEAN :
          IF down
          THEN /\ lookups' = [lookups EXCEPT ![g].err = BadConnection, ![g].pc = "done"]
               /\ UNCHANGED airportIDCache
          ELSE IF PlaceIDByIATA(lookups[g].iata) = NULL
          THEN /\ lookups' = [lookups EXCEPT ![g].err = NoRows, ![g].pc = "done"]
               /\ airportIDCache' = MapAssign(airportIDCache, lookups[g].iata, 0)
          ELSE /\ lookups' = [lookups EXCEPT ![g].id = PlaceIDByIATA(lookups[g].iata),
                                             ![g].pc = "lock"]
               /\ UNCHANGED airportIDCache
    /\ UNCHANGED <<places, offers, now, pc, body, line, saved, resp, stderr, calls, before,
                   req, res, err, httpReq, httpResp, airportIDCacheMu>>

\* SELECT place_id FROM places WHERE iata_code = $1, and row.Scan.  down: the
\* query did not reach the table.
LookupQuery(g) ==
    /\ lookups[g].pc = "query"
    /\ \E down \in BOOLEAN :
          IF down
          THEN lookups' = [lookups EXCEPT ![g].err = BadConnection, ![g].pc = "done"]
          ELSE IF PlaceIDByIATA(lookups[g].iata) = NULL
          THEN lookups' = [lookups EXCEPT ![g].err = NoRows, ![g].pc = "done"]
          ELSE lookups' = [lookups EXCEPT ![g].id = PlaceIDByIATA(lookups[g].iata),
                                          ![g].pc = "lock"]
    /\ UNCHANGED <<places, offers, now, pc, body, line, saved, resp, stderr, calls, before,
                   req, res, err, httpReq, httpResp, airportIDCache, airportIDCacheMu>>

\* airportIDCacheMu.Lock()
LookupLock(g) ==
    /\ lookups[g].pc = "lock"
    /\ airportIDCacheMu = 0
    /\ airportIDCacheMu' = g
    /\ lookups' = [lookups EXCEPT ![g].pc = "locked"]
    /\ UNCHANGED <<places, offers, now, pc, body, line, saved, resp, stderr, calls, before,
                   req, res, err, httpReq, httpResp, airportIDCache>>

\* airportIDCache[iata] = id begins: the reads under way are overlapped.
LookupWriteBegin(g) ==
    /\ lookups[g].pc = "locked"
    /\ lookups' = [h \in Goroutines |->
                      IF h = g THEN [lookups[h] EXCEPT !.pc = "write"]
                      ELSE IF h \in Reading THEN [lookups[h] EXCEPT !.raced = TRUE]
                      ELSE lookups[h]]
    /\ UNCHANGED <<places, offers, now, pc, body, line, saved, resp, stderr, calls, before,
                   req, res, err, httpReq, httpResp, airportIDCache, airportIDCacheMu>>

\* airportIDCache[iata] = id ends.
LookupWriteEnd(g) ==
    /\ lookups[g].pc = "write"
    /\ airportIDCache' = MapAssign(airportIDCache, lookups[g].iata, lookups[g].id)
    /\ lookups' = [lookups EXCEPT ![g].pc = "unlock"]
    /\ UNCHANGED <<places, offers, now, pc, body, line, saved, resp, stderr, calls, before,
                   req, res, err, httpReq, httpResp, airportIDCacheMu>>

\* airportIDCacheMu.Unlock()
LookupUnlock(g) ==
    /\ lookups[g].pc = "unlock"
    /\ airportIDCacheMu' = 0
    /\ lookups' = [lookups EXCEPT ![g].pc = "done"]
    /\ UNCHANGED <<places, offers, now, pc, body, line, saved, resp, stderr, calls, before,
                   req, res, err, httpReq, httpResp, airportIDCache>>

\* AirportIDByIATA has returned id and err to its caller.
LookupReturn(g) ==
    /\ lookups[g].pc = "done"
    /\ lookups' = [lookups EXCEPT ![g] = NoLookup]
    /\ UNCHANGED <<places, offers, now, pc, body, line, saved, resp, stderr, calls, before,
                   req, res, err, httpReq, httpResp, airportIDCache, airportIDCacheMu>>

NextCache ==
    \/ \E g \in Goroutines : LookupCall(g)
    \/ \E g \in Goroutines : LookupRead(g)
    \/ \E g \in Goroutines : LookupQuery(g)
    \/ \E g \in Goroutines : LookupLock(g)
    \/ \E g \in Goroutines : LookupWriteBegin(g)
    \/ \E g \in Goroutines : LookupWriteEnd(g)
    \/ \E g \in Goroutines : LookupUnlock(g)
    \/ \E g \in Goroutines : LookupReturn(g)
    \/ SeedPlace

SpecCache == Init /\ [][NextCache]_vars

-----------------------------------------------------------------------------
(* What the airport cache is to do. *)

\* The call of goroutine g ended in this step.
Ended(g) == lookups[g].pc \notin {"done", "fatal"} /\ lookups'[g].pc = "done"

\* C14: every entry of the cache is the place id the table places holds for
\* its code, and a call that missed and succeeded left its id in the cache.
\* The cache changes only when a call that found its code in places stores
\* that id; a call that ends in failure leaves the cache as it was.  The lookup
\* of a miss reports "no rows" only for a code that places does not hold, so a
\* code that failed resolves once its airport is in places.
C14_CacheFollowsStore ==
    /\ [](/\ \A c \in DOMAIN airportIDCache : airportIDCache[c] = PlaceIDByIATA(c)
          /\ \A g \in Goroutines :
                (lookups[g].pc = "done" /\ ~lookups[g].ok /\ lookups[g].err = "") =>
                    /\ lookups[g].iata \in DOMAIN airportIDCache
                    /\ airportIDCache[lookups[g].iata] = lookups[g].id)
    /\ [][/\ airportIDCache' # airportIDCache =>
                \E g \in Goroutines :
                    LET c == lookups[g].iata
                    IN /\ lookups[g].err = ""
                       /\ \E p \in places : p.iata_code = c /\ p.place_id = lookups[g].id
                       /\ DOMAIN airportIDCache' = DOMAIN airportIDCache \cup {c}
                       /\ airportIDCache'[c] = lookups[g].id
                       /\ \A d \in DOMAIN airportIDCache \ {c} :
                             airportIDCache'[d] = airportIDCache[d]
          /\ \A g \in Goroutines :
                /\ (Ended(g) /\ lookups'[g].err # "") => airportIDCache' = airportIDCache
                /\ (lookups[g].pc = "query" /\ lookups'[g].pc \notin {"query", "fatal"}) =>
                      IF \E p \in places : p.iata_code = lookups[g].iata
                      THEN /\ lookups'[g].err # NoRows
                           /\ lookups'[g].err = "" =>
                                 /\ lookups'[g].pc = "lock"
                                 /\ \E p \in places : /\ p.iata_code = lookups[g].iata
                                                      /\ p.place_id = lookups'[g].id
                      ELSE /\ lookups'[g].err # ""
                           /\ lookups'[g].pc = "done"]_vars

\* One call for SFO has failed with "no rows"; the airport was added; another
\* call for SFO missed, looked it up and left its id in the cache.
C14_Witness ==
    \E g, h \in Goroutines :
        /\ lookups[g].pc = "done"
        /\ lookups[g].iata = SFO
        /\ lookups[g].err = NoRows
        /\ lookups[h].pc = "done"
        /\ lookups[h].iata = SFO
        /\ lookups[h].err = ""
        /\ ~lookups[h].ok
        /\ SFO \in DOMAIN airportIDCache
        /\ airportIDCache[SFO] = LatePlace.place_id

\* C15: while a goroutine writes the map, no other goroutine reads or writes
\* it.
C15_NoMapRace ==
    \A g \in Writing : \A h \in Goroutines \ {g} : lookups[h].pc \notin {"read", "write"}

====
